---------------------------- MODULE Spec2Model ----------------------------
(***************************************************************************)
(* A model of the MicroCbor codec (include/microcbor/MicroCbor.hpp): the   *)
(* header codec, the streaming writer with its map frames, and the reader  *)
(* that looks fields up by name.                                           *)
(*                                                                         *)
(* A MicroCbor object is a record with the fields of the class.  Its       *)
(* buffer is the byte sequence mBuf (the memory the pointer refers to),    *)
(* of which the first mMaxBufLen bytes are the declared buffer.  Byte      *)
(* offsets are 0-based as in the source; mBuf[i + 1] is the byte at        *)
(* offset i.  Fields whose name starts with x are not members of the       *)
(* class.  xMaxWrite, xMaxRead, xFrameOOB and xTableOOB are history: they  *)
(* record what a call touched (highest byte written or read, a frame index *)
(* outside the frame array, a table index outside the table) and no        *)
(* operation reads them.  xAlias, xFlags and xWild describe the memory     *)
(* around mMapState, which an index outside the array reaches.             *)
(*                                                                         *)
(* A uint32_t is kept as its 32-bit pattern: values below 2^31 are         *)
(* themselves, values from 2^31 are the number minus 2^32.  Integer        *)
(* payloads of add<T>/get<T> are big-endian byte sequences of sizeof(T)    *)
(* bytes, so that the 64-bit types are exact.                              *)
(***************************************************************************)
EXTENDS Integers, Sequences, FiniteSets, TLC

VARIABLES cbor, meas, last, calls

vars == <<cbor, meas, last, calls>>

---------------------------------------------------------------------------
(* Program constants *)

CONFIG_MICROCBOR_MAX_NESTING == 4

kCborPosInt == 0
kCborNegInt == 1
kCborByteString == 2
kCborUTF8String == 3
kCborArray == 4
kCborMap == 5
kCborTag == 6
kCborSimple == 7
kCborError == 8
kCborFalse == (kCborSimple * 32) + 20
kCborTrue == (kCborSimple * 32) + 21
kCborNull == (kCborSimple * 32) + 22
kCborFloat32 == (kCborSimple * 32) + 26
kCborFloat64 == (kCborSimple * 32) + 27
kCborTagInvalid == 65535

\* kCborTagInfo<T>::tag for an element type T = [size, signed]
kCborTagInfo(T) ==
    IF T.float THEN (IF T.size = 4 THEN 85 ELSE 86)
    ELSE IF T.signed
         THEN (CASE T.size = 1 -> 72 [] T.size = 2 -> 77 [] T.size = 4 -> 78 [] OTHER -> 79)
         ELSE (CASE T.size = 1 -> 64 [] T.size = 2 -> 69 [] T.size = 4 -> 70 [] OTHER -> 71)

---------------------------------------------------------------------------
(* 32-bit unsigned arithmetic on 32-bit patterns *)

MaxInt32 == 2147483647
MinInt32 == (-2147483647) - 1
Two24 == 256 * 65536

\* a + b modulo 2^32
U32Add(a, b) ==
    IF a >= 0 /\ b >= 0
    THEN IF a <= MaxInt32 - b THEN a + b
         ELSE ((a - MaxInt32) - 1) + ((b - MaxInt32) - 1)
    ELSE IF a < 0 /\ b < 0
         THEN IF a >= MinInt32 - b THEN a + b
              ELSE ((a + MaxInt32) + 1) + ((b + MaxInt32) + 1)
         ELSE a + b

\* a < b, a <= b as unsigned numbers
U32Lt(a, b) ==
    IF (a >= 0) = (b >= 0) THEN a < b ELSE a >= 0
U32Le(a, b) == a = b \/ U32Lt(a, b)

\* a - 1 modulo 2^32
U32Dec(a) == IF a = MinInt32 THEN MaxInt32 ELSE a - 1

\* the four bytes of a uint32_t, most significant first
U32Bytes(a) ==
    << (a \div Two24) % 256, (a \div 65536) % 256, (a \div 256) % 256, a % 256 >>

\* p[0] << 24 | p[1] << 16 | p[2] << 8 | p[3]
U32FromBytes(b) ==
    (IF b[1] < 128 THEN b[1] ELSE b[1] - 256) * Two24
        + (b[2] * 65536) + (b[3] * 256) + b[4]

\* the low n bytes of a big-endian byte sequence, zero-extended on the left
Resize(b, n) ==
    [i \in 1..n |-> IF i + (Len(b) - n) >= 1 THEN b[i + (Len(b) - n)] ELSE 0]

\* bitwise complement: -1 - v for a two's complement v
Complement(b) == [i \in 1..Len(b) |-> 255 - b[i]]

Max(a, b) == IF a >= b THEN a ELSE b
Min(a, b) == IF a <= b THEN a ELSE b

---------------------------------------------------------------------------
(* Names (C strings).  A name is a sequence of non-zero bytes; NullName is *)
(* the null pointer.                                                       *)

NullName == << 256 >>
strlen(name) == Len(name)

---------------------------------------------------------------------------
(* The object *)

ZeroFrame == [mapStartPos |-> 0, mapStartCount |-> 0, mapCount |-> 0]

\* MicroCbor::initBuffer(void *buf, maxBufLen) on a object o
initBuffer(o, buf, maxBufLen) ==
    [o EXCEPT !.mBuf = buf, !.mMaxBufLen = maxBufLen, !.mDepth = -1,
              !.mResult = 0, !.mDataOffset = 0, !.mBufBytesNeeded = 0,
              !.mReadOnly = FALSE]

\* MicroCbor::initBuffer(const void *buf, maxBufLen)
initBufferConst(o, buf, maxBufLen) ==
    [initBuffer(o, buf, maxBufLen) EXCEPT !.mReadOnly = TRUE]

\* the member initialisers; mMapState has none, and no frame is read
\* before startMap has set it
Blank ==
    [mBuf |-> << >>, mMaxBufLen |-> 0, mBufBytesNeeded |-> 0, mDataOffset |-> 0,
     mResult |-> 0, mReadOnly |-> FALSE, mNullTerminate |-> FALSE, mDepth |-> 0,
     mMapState |-> [d \in 0..(CONFIG_MICROCBOR_MAX_NESTING - 1) |-> ZeroFrame],
     xMaxWrite |-> -1, xMaxRead |-> -1, xFrameOOB |-> FALSE, xTableOOB |-> FALSE,
     xAlias |-> TRUE, xFlags |-> -1, xWild |-> FALSE]

\* MicroCbor()
MicroCborDefault == initBuffer(Blank, << >>, 0)

\* MicroCbor(void *buf, maxBufLen, nullTerminate = true)
MicroCborMutable(buf, maxBufLen, nullTerminate) ==
    initBuffer([Blank EXCEPT !.mNullTerminate = nullTerminate], buf, maxBufLen)

\* MicroCbor(const void *buf, maxBufLen, nullTerminate = false)
MicroCborConst(buf, maxBufLen, nullTerminate) ==
    initBufferConst([Blank EXCEPT !.mNullTerminate = nullTerminate], buf, maxBufLen)

\* restart as it would be if it left the count of bytes needed alone
restartKeepNeeded(o) ==
    [o EXCEPT !.mDepth = -1, !.mResult = 0, !.mDataOffset = 0]

\* restart()
restart(o) ==
    [o EXCEPT !.mDepth = -1, !.mResult = 0, !.mDataOffset = 0,
              !.mBufBytesNeeded = 0]

bytesSerialized(o) == o.mDataOffset
bytesNeeded(o) == o.mBufBytesNeeded
getResult(o) == o.mResult

---------------------------------------------------------------------------
(* Writer primitives *)

\* mBuf[i] = v: the store, and the highest offset stored to.  A store
\* outside the modelled memory, or through a pointer that a stray frame
\* store has overwritten, only leaves its mark in xMaxWrite.
poke(o, i, v) ==
    IF o.xWild THEN [o EXCEPT !.xMaxWrite = MaxInt32]
    ELSE [o EXCEPT !.mBuf = IF i >= 0 /\ i < Len(o.mBuf)
                            THEN [o.mBuf EXCEPT ![i + 1] = v] ELSE o.mBuf,
                   !.xMaxWrite = Max(o.xMaxWrite, i)]

\* stores of the bytes b[1..n] at offsets at, at+1, ...
RECURSIVE pokeAll(_, _, _)
pokeAll(o, at, b) ==
    IF Len(b) = 0 THEN o
    ELSE pokeAll(poke(o, at, b[1]), at + 1, Tail(b))

reserveBytes(o, n) ==
    LET needed == U32Add(o.mBufBytesNeeded, n)
    IN  [o EXCEPT !.mBufBytesNeeded = needed,
                  !.mResult = IF U32Lt(o.mMaxBufLen, needed) THEN -1 ELSE o.mResult]

bytesForLength(length) ==
    IF U32Lt(length, 24) THEN 1
    ELSE IF U32Lt(length, 256) THEN 2
    ELSE IF U32Lt(length, 65536) THEN 3 ELSE 4

storeByte(o, v) ==
    IF o.mResult # 0 THEN o
    ELSE [poke(o, o.mDataOffset, v) EXCEPT !.mDataOffset = o.mDataOffset + 1]

\* the body shared by encodeUInt8/16/32/64: reserve, then tag and value
\* bytes at mDataOffset when no error is set
encodeUIntBytes(o, tag, value) ==
    LET r == reserveBytes(o, 1 + Len(value))
    IN  IF r.mResult = 0
        THEN [pokeAll(r, r.mDataOffset, <<tag>> \o value)
                EXCEPT !.mDataOffset = r.mDataOffset + 1 + Len(value)]
        ELSE r

encodeUInt8(o, tag, value) == encodeUIntBytes(o, tag, Resize(value, 1))
encodeUInt16(o, tag, value) == encodeUIntBytes(o, tag, Resize(value, 2))
encodeUInt32(o, tag, value) == encodeUIntBytes(o, tag, Resize(value, 4))
encodeUInt64(o, tag, value) == encodeUIntBytes(o, tag, Resize(value, 8))

\* uint8_t(majorval << 5 | len)
HeaderByte(majorval, low) == ((majorval * 32) + low) % 256

\* encodeHeader as it would be if its first test were len <= 24
encodeHeaderOff(o, majorval, len) ==
    IF U32Le(len, 24)
    THEN storeByte(reserveBytes(o, 1), HeaderByte(majorval, len))
    ELSE IF U32Lt(len, 256)
    THEN storeByte(storeByte(reserveBytes(o, 2), HeaderByte(majorval, 24)), len)
    ELSE IF U32Lt(len, 65536)
    THEN encodeUInt16(o, HeaderByte(majorval, 25), U32Bytes(len))
    ELSE encodeUInt32(o, HeaderByte(majorval, 26), U32Bytes(len))

encodeHeader(o, majorval, len) ==
    IF U32Lt(len, 24)
    THEN storeByte(reserveBytes(o, 1), HeaderByte(majorval, len))
    ELSE IF U32Lt(len, 256)
    THEN storeByte(storeByte(reserveBytes(o, 2), HeaderByte(majorval, 24)), len)
    ELSE IF U32Lt(len, 65536)
    THEN encodeUInt16(o, HeaderByte(majorval, 25), U32Bytes(len))
    ELSE encodeUInt32(o, HeaderByte(majorval, 26), U32Bytes(len))

encodeTag(o, tag) ==
    IF tag < 24
    THEN storeByte(reserveBytes(o, 1), HeaderByte(kCborTag, tag))
    ELSE IF tag < 256
    THEN storeByte(storeByte(reserveBytes(o, 2), HeaderByte(kCborTag, 24)), tag)
    ELSE storeByte(storeByte(storeByte(reserveBytes(o, 3), HeaderByte(kCborTag, 25)),
                             tag \div 256), tag % 256)

\* memcpy(mBuf + mDataOffset, bytes, len) and mDataOffset += len, under
\* the caller's test of mResult
copyIn(o, bytes) ==
    IF o.mResult = 0
    THEN [pokeAll(o, o.mDataOffset, bytes)
            EXCEPT !.mDataOffset = o.mDataOffset + Len(bytes)]
    ELSE o

\* encodeString(value, nullTerminate): with nullTerminate the copy of
\* len + 1 bytes takes the string's own terminator
encodeString(o, value, nullTerminate) ==
    LET bytes == IF nullTerminate THEN value \o <<0>> ELSE value
        h == encodeHeader(o, kCborUTF8String, Len(bytes))
    IN  copyIn(reserveBytes(h, Len(bytes)), bytes)

---------------------------------------------------------------------------
(* mMapState[d] for d outside 0..CONFIG_MICROCBOR_MAX_NESTING-1.  The      *)
(* members are laid out in declaration order: mBuf, mMaxBufLen,            *)
(* mBufBytesNeeded, mDataOffset, mResult, mReadOnly, mNullTerminate,       *)
(* mDepth, mMapState.  Where the build keeps that layout (xAlias) the      *)
(* frame at index -1 is {mDataOffset, mResult, the two flag bytes} and the *)
(* frame at index -2 is {part of mBuf, mMaxBufLen, the low half of         *)
(* mBufBytesNeeded}.  Any other frame outside the array lies outside the   *)
(* object: it reads as g, any value, and a store to it is lost to the      *)
(* object.  xFrameOOB records every such access.                           *)

FrameIndexOk(d) == d >= 0 /\ d < CONFIG_MICROCBOR_MAX_NESTING

\* the bytes of mReadOnly and mNullTerminate as a uint16_t
flagBytes(o) ==
    IF o.xFlags >= 0 THEN o.xFlags
    ELSE (IF o.mReadOnly THEN 1 ELSE 0) + (IF o.mNullTerminate THEN 256 ELSE 0)

Aliased(o, d) == o.xAlias /\ d \in {-1, -2}

\* reading mMapState[d], d outside the array
strayFrame(o, d, g) ==
    IF o.xAlias /\ d = -1
    THEN [mapStartPos |-> o.mDataOffset, mapStartCount |-> o.mResult,
          mapCount |-> flagBytes(o)]
    ELSE IF o.xAlias /\ d = -2
    THEN [mapStartPos |-> g.mapStartPos, mapStartCount |-> o.mMaxBufLen,
          mapCount |-> o.mBufBytesNeeded % 65536]
    ELSE g

\* mMapState[d].mapCount = c, d outside the array
strayCount(o, d, c) ==
    IF o.xAlias /\ d = -1
    THEN [o EXCEPT !.xFrameOOB = TRUE, !.xFlags = c,
                   !.mReadOnly = (c % 256) # 0, !.mNullTerminate = (c \div 256) # 0]
    ELSE IF o.xAlias /\ d = -2
    THEN [o EXCEPT !.xFrameOOB = TRUE,
                   !.mBufBytesNeeded = (@ - (@ % 65536)) + c]
    ELSE [o EXCEPT !.xFrameOOB = TRUE]

\* mMapState[d] = f, d outside the array; at index -2 mapStartPos lands in mBuf
strayStore(o, d, f) ==
    IF o.xAlias /\ d = -1
    THEN [strayCount(o, d, f.mapCount)
            EXCEPT !.mDataOffset = f.mapStartPos, !.mResult = f.mapStartCount]
    ELSE IF o.xAlias /\ d = -2
    THEN [strayCount(o, d, f.mapCount)
            EXCEPT !.xWild = TRUE, !.mMaxBufLen = f.mapStartCount]
    ELSE [o EXCEPT !.xFrameOOB = TRUE]

---------------------------------------------------------------------------
(* Keys and byte strings *)

\* mMapState[mDepth].mapCount++
bumpMapCount(o) ==
    IF FrameIndexOk(o.mDepth)
    THEN [o EXCEPT !.mMapState[o.mDepth].mapCount = (@ + 1) % 65536]
    ELSE strayCount(o, o.mDepth,
                    (strayFrame(o, o.mDepth, ZeroFrame).mapCount + 1) % 65536)

encodeMapKey(o, value) ==
    IF value = NullName \/ Len(value) = 0 THEN o
    ELSE encodeString(bumpMapCount(o), value, FALSE)

encodeBytes(o, bytes, numBytes) ==
    LET h == reserveBytes(encodeHeader(o, kCborByteString, numBytes), numBytes)
    IN  IF h.mResult = 0 THEN copyIn(h, bytes) ELSE h

---------------------------------------------------------------------------
(* Writer operations *)

\* mMapState[mDepth] = {mapStartPos, mapStartCount, 0}
pushFrame(o, numElements) ==
    IF FrameIndexOk(o.mDepth)
    THEN [o EXCEPT !.mMapState[o.mDepth] =
                      [mapStartPos |-> o.mDataOffset,
                       mapStartCount |-> numElements, mapCount |-> 0]]
    ELSE strayStore(o, o.mDepth,
                    [mapStartPos |-> o.mDataOffset,
                     mapStartCount |-> numElements, mapCount |-> 0])

\* the guard of startMap
startMapRefused(o) == o.mReadOnly \/ o.mDepth >= CONFIG_MICROCBOR_MAX_NESTING

\* Error startMap(const uint32_t numElements = 0)
startMap(o, numElements) ==
    IF startMapRefused(o)
    THEN [o EXCEPT !.mResult = -1]
    ELSE encodeHeader(pushFrame([o EXCEPT !.mDepth = o.mDepth + 1], numElements),
                      kCborMap, numElements)

\* the bytes endMap stores for a frame whose count differs from the hint
endMapPatch(o, map) ==
    IF map.mapCount < 24
    THEN poke(o, map.mapStartPos, HeaderByte(kCborMap, map.mapCount))
    ELSE poke(poke(o, map.mapStartPos, HeaderByte(kCborMap, 24)),
              map.mapStartPos + 1, map.mapCount % 256)

\* Error endMap()
endMap(o, g) ==
    LET ok == FrameIndexOk(o.mDepth)
        map == IF ok THEN o.mMapState[o.mDepth] ELSE strayFrame(o, o.mDepth, g)
        seen == [o EXCEPT !.xFrameOOB = o.xFrameOOB \/ ~ok]
        patched == IF seen.mResult = 0 /\ map.mapCount # map.mapStartCount
                   THEN endMapPatch(seen, map) ELSE seen
    IN  [patched EXCEPT !.mDepth = IF o.mDepth = -128 THEN 127 ELSE o.mDepth - 1]

\* Error startMap(const char *name, uint8_t numElements = 0): the hint is
\* not passed on
startMapNamed(o, name, numElements) == startMap(encodeMapKey(o, name), 0)

IsNegative(T, value) == T.signed /\ value[1] >= 128

\* the tag and payload add<T> hands to encodeUIntN
addIntTag(T, value) ==
    IF IsNegative(T, value) THEN kCborNegInt * 32 ELSE kCborPosInt * 32
\* the payload as it would be if a negative value were stored as it is
addIntPayloadRaw(T, value) == value
addIntPayload(T, value) ==
    IF IsNegative(T, value) THEN Complement(value) ELSE value

\* template <typename T> Error add(const char *name, const T value), T integral
addInt(o, T, name, value) ==
    LET k == encodeMapKey(o, name)
        tag == addIntTag(T, value)
        intValue == addIntPayload(T, value)
    IN  IF T.size = 8 THEN encodeUInt64(k, tag + 27, intValue)
        ELSE IF T.size = 4 THEN encodeUInt32(k, tag + 26, intValue)
        ELSE IF T.size = 2 THEN encodeUInt16(k, tag + 25, intValue)
        ELSE encodeUInt8(k, tag + 24, intValue)

\* Error add(const char *name, const bool value)
addBool(o, name, value) ==
    storeByte(reserveBytes(encodeMapKey(o, name), 1),
              IF value THEN kCborTrue ELSE kCborFalse)

\* Error add(const char *name, const char *value)
addString(o, name, value) ==
    encodeString(encodeMapKey(o, name), value, o.mNullTerminate)

\* the uint32_t length addMinimal hands to encodeHeader
addMinimalLen(T, value) ==
    U32FromBytes(Resize(IF IsNegative(T, value) THEN Complement(value) ELSE value, 4))

\* template <typename T> Error addMinimal(const char *name, const T value)
addMinimal(o, T, name, value) ==
    encodeHeader(encodeMapKey(o, name),
                 IF IsNegative(T, value) THEN kCborNegInt ELSE kCborPosInt,
                 addMinimalLen(T, value))

\* Error add(const char *name, const float value): value is the bit pattern
addFloat(o, name, value) == encodeUInt32(encodeMapKey(o, name), kCborFloat32, value)

\* Error add(const char *name, const double value)
addDouble(o, name, value) == encodeUInt64(encodeMapKey(o, name), kCborFloat64, value)

\* the padding add(name, T*, n, align) puts after the key, 0 when aligned
arrayPadding(o, T, name, numRawBytes) ==
    LET len == strlen(name)
        preambleBytes == len + bytesForLength(len) + 2 + bytesForLength(numRawBytes)
        vectorOffset == o.mBufBytesNeeded + preambleBytes
        oddBytes == vectorOffset % T.size
    IN  IF oddBytes = 0 THEN 0 ELSE T.size - oddBytes

\* the key of an aligned array: header of len + padding, the name, zeros
encodePaddedKey(o, name, paddingNeeded) ==
    LET total == strlen(name) + paddingNeeded
        h == reserveBytes(encodeHeader(o, kCborUTF8String, total), total)
    IN  copyIn(h, name \o [i \in 1..paddingNeeded |-> 0])

\* template <typename T> Error add(name, const T *value, numElements, align);
\* value is the array's bytes
addArray(o, T, name, value, numElements, align) ==
    LET numRawBytes == numElements * T.size
        k == IF name # NullName /\ align
             THEN IF arrayPadding(o, T, name, numRawBytes) = 0
                  THEN encodeMapKey(o, name)
                  ELSE encodePaddedKey(o, name, arrayPadding(o, T, name, numRawBytes))
             ELSE encodeMapKey(o, name)
    IN  encodeBytes(encodeTag(k, kCborTagInfo(T)), value, numRawBytes)

---------------------------------------------------------------------------
(* Reader.  A TypeInfo is [tag, majorval, minorval, headerBytes, p] with p *)
(* the offset of the item's first byte.  TypeInfo(kCborError) sets only    *)
(* majorval: its other fields hold whatever the stack held, the record j   *)
(* (j.tag, j.minorval, j.headerBytes, j.p).  j.byte is the value of a byte *)
(* read outside the modelled memory.  Every operation that moves the       *)
(* cursor returns the object with its result.                              *)

TypeInfoError(j) ==
    [tag |-> j.tag, majorval |-> kCborError, minorval |-> j.minorval,
     headerBytes |-> j.headerBytes, p |-> j.p]

\* kCborheaderBytes[24 + 4]
kCborheaderBytes ==
    [m \in 0..27 |-> IF m < 24 THEN 1
                     ELSE IF m = 24 THEN 2 ELSE IF m = 25 THEN 3
                     ELSE IF m = 26 THEN 5 ELSE 9]

\* mBuf[i]
byteAt(o, i, j) == IF i >= 0 /\ i < Len(o.mBuf) THEN o.mBuf[i + 1] ELSE j.byte

\* the bytes mBuf[at], ..., mBuf[at + n - 1]
bytesAt(o, at, n, j) == [i \in 1..n |-> byteAt(o, at + i - 1, j)]

\* history: the bytes at offsets from .. to were read
noteRead(o, from, to) ==
    IF to < from THEN o ELSE [o EXCEPT !.xMaxRead = Max(o.xMaxRead, to)]

\* template <typename T = uint32_t> T getFieldValue(const TypeInfo &info)
getFieldValue(o, info, j) ==
    LET p == info.p + 1
    IN  CASE info.headerBytes = 1 -> info.minorval
          [] info.headerBytes = 2 -> byteAt(o, p, j)
          [] info.headerBytes = 3 -> (byteAt(o, p, j) * 256) + byteAt(o, p + 1, j)
          [] info.headerBytes = 5 -> U32FromBytes(bytesAt(o, p, 4, j))
          [] info.headerBytes = 9 -> U32FromBytes(Resize(bytesAt(o, p, 8, j), 4))
          [] OTHER -> 0

\* history: the bytes getFieldValue reads for info
sawFieldValue(o, info) ==
    IF info.headerBytes \in {2, 3, 5, 9}
    THEN noteRead(o, info.p + 1, info.p + info.headerBytes - 1)
    ELSE o

\* the local variable of a step: The({ e : x \in {v} }) is e with x the
\* value of v, computed once
The(S) == CHOOSE x \in S : TRUE

RECURSIVE getNextField(_, _)
RECURSIVE skipField(_, _, _)
RECURSIVE skipMapPairs(_, _, _)
RECURSIVE skipArrayItems(_, _, _)

\* TypeInfo getNextField()
getNextField(o, j) ==
    IF U32Le(o.mMaxBufLen, o.mDataOffset)
    THEN [o |-> o, info |-> TypeInfoError(j)]
    ELSE LET p == o.mDataOffset
             b == byteAt(o, p, j)
             majorval == b \div 32
             minorval == b % 32
             headerBytes == IF minorval < 28 THEN kCborheaderBytes[minorval]
                            ELSE j.headerBytes
             o1 == [noteRead(o, p, p) EXCEPT !.xTableOOB = @ \/ minorval >= 28]
             field == [tag |-> kCborTagInvalid, majorval |-> majorval,
                       minorval |-> minorval, headerBytes |-> headerBytes, p |-> p]
         IN  IF U32Lt(o.mMaxBufLen, U32Add(p, headerBytes))
             THEN [o |-> o1, info |-> TypeInfoError(j)]
             ELSE IF majorval = kCborTag
             THEN The({ [o |-> r.o,
                         info |-> [r.info EXCEPT !.tag = getFieldValue(o1, field, j) % 65536]] :
                        r \in { getNextField(o2, j) : o2 \in { skipField(o1, field, j) } } })
             ELSE [o |-> o1, info |-> field]

\* void skipField(const TypeInfo &info)
skipField(o, info, j) ==
    The({ IF U32Le(o1.mMaxBufLen, o1.mDataOffset) THEN o1
          ELSE IF info.majorval \in {kCborByteString, kCborUTF8String}
          THEN [o1 EXCEPT !.mDataOffset = U32Add(o1.mDataOffset, len)]
          ELSE IF info.majorval = kCborMap THEN skipMapPairs(o1, len, j)
          ELSE IF info.majorval = kCborArray THEN skipArrayItems(o1, len, j)
          ELSE o1 :
          len \in { getFieldValue(o, info, j) },
          o1 \in { [sawFieldValue(o, info)
                      EXCEPT !.mDataOffset = U32Add(o.mDataOffset, info.headerBytes)] } })

\* while (len--) { key = getNextField(); skipField(key); value = ... }
\* A pass that changes nothing is repeated unchanged by all later passes.
skipMapPairs(o, len, j) ==
    IF len = 0 THEN o
    ELSE The({ IF o2 = o THEN o ELSE skipMapPairs(o2, n, j) :
               n \in { U32Dec(len) },
               o2 \in { skipField(value.o, value.info, j) :
                          value \in { getNextField(o1, j) :
                                        o1 \in { skipField(key.o, key.info, j) :
                                                   key \in { getNextField(o, j) } } } } })

\* while (len--) { field = getNextField(); skipField(field); }
skipArrayItems(o, len, j) ==
    IF len = 0 THEN o
    ELSE The({ IF o1 = o THEN o ELSE skipArrayItems(o1, n, j) :
               n \in { U32Dec(len) },
               o1 \in { skipField(field.o, field.info, j) :
                          field \in { getNextField(o, j) } } })

\* name[i] of the C string name: its bytes, then the terminator
nameChar(name, i) == IF i < Len(name) THEN name[i + 1] ELSE 0

\* how many characters strncmp(name, key, n) compares at most: n, or up
\* to and including name's terminator
strncmpSpan(name, n) ==
    IF n < 0 \/ n > Len(name) THEN Len(name) + 1 ELSE n

\* strncmp(name, mBuf + key, n) == 0
strncmpEqual(o, name, key, n, j) ==
    \A i \in 0..(strncmpSpan(name, n) - 1) : nameChar(name, i) = byteAt(o, key + i, j)

\* history: the bytes of mBuf that strncmp reads, up to the first difference
sawStrncmp(o, name, key, n, j) ==
    LET span == strncmpSpan(name, n)
        diff == { i \in 0..(span - 1) : nameChar(name, i) # byteAt(o, key + i, j) }
        stop == IF diff = {} THEN span - 1
                ELSE CHOOSE i \in diff : \A k \in diff : i <= k
    IN  noteRead(o, key, key + stop)

\* len <= sLen && strncmp(name, key, sLen) == 0, with sLen a uint32_t
keyMatches(o, name, key, sLen, j) ==
    /\ (sLen < 0 \/ Len(name) <= sLen)
    /\ strncmpEqual(o, name, key, sLen, j)

\* history: strncmp runs only when len <= sLen
sawKeyCompare(o, name, key, sLen, j) ==
    IF sLen < 0 \/ Len(name) <= sLen THEN sawStrncmp(o, name, key, sLen, j) ELSE o

\* the offset findElement compares name at: the cursor plus the header
\* length of the map (info), not of the key
keyOffset(o, info) == o.mDataOffset + info.headerBytes

\* one pass of the loop for the key s, seen with the cursor at its header:
\* [hit, o, info], with o and info the cursor and the field after the pass
findPass(o, name, info, s, j) ==
    The({ [hit |-> keyMatches(o, name, keyOffset(o, info), sLen, j),
           o |-> IF keyMatches(o, name, keyOffset(o, info), sLen, j)
                 THEN value.o ELSE skipField(value.o, value.info, j),
           info |-> value.info] :
          sLen \in { getFieldValue(o, s, j) },
          value \in { getNextField(o2, j) :
                        o2 \in { skipField(o1, s, j) :
                                   o1 \in { sawKeyCompare(sawFieldValue(o, s), name,
                                                          keyOffset(o, info),
                                                          getFieldValue(o, s, j), j) } } } })

RECURSIVE findLoop(_, _, _, _, _, _)
\* the while (numItems-- != 0) loop of findElement
findLoop(o, name, info, mapOffset, numItems, j) ==
    IF numItems = 0
    THEN [o |-> [o EXCEPT !.mDataOffset = mapOffset], info |-> TypeInfoError(j)]
    ELSE The({ IF pass.hit
               THEN [o |-> [pass.o EXCEPT !.mDataOffset = mapOffset], info |-> pass.info]
               ELSE IF pass.o = o
               THEN [o |-> [o EXCEPT !.mDataOffset = mapOffset], info |-> TypeInfoError(j)]
               ELSE findLoop(pass.o, name, info, mapOffset, n, j) :
               n \in { U32Dec(numItems) },
               pass \in { findPass(s.o, name, info, s.info, j) :
                            s \in { getNextField(o, j) } } })

\* TypeInfo findElement(const char *name)
findElement(o, name, j) ==
    The({ IF r.info.majorval # kCborMap
          THEN [o |-> r.o, info |-> TypeInfoError(j)]
          ELSE The({ findLoop(o1, name, r.info, o.mDataOffset, numItems, j) :
                     numItems \in { getFieldValue(r.o, r.info, j) },
                     o1 \in { [sawFieldValue(r.o, r.info)
                                 EXCEPT !.mDataOffset =
                                   U32Add(r.o.mDataOffset, r.info.headerBytes)] } }) :
          r \in { getNextField(o, j) } })

RECURSIVE findPasses(_, _, _, _, _)
\* the number of passes the while (numItems-- != 0) loop of findElement
\* makes, as a uint32_t: a pass that changes nothing is followed by
\* numItems - 1 passes like it
findPasses(o, name, info, numItems, j) ==
    IF numItems = 0 THEN 0
    ELSE The({ IF pass.hit THEN 1
               ELSE IF pass.o = o THEN numItems
               ELSE U32Add(1, findPasses(pass.o, name, info, n, j)) :
               n \in { U32Dec(numItems) },
               pass \in { findPass(s.o, name, info, s.info, j) :
                            s \in { getNextField(o, j) } } })

\* the number of key/value pairs findElement(name) visits
pairsVisited(o, name, j) ==
    The({ IF r.info.majorval # kCborMap THEN 0
          ELSE The({ findPasses(o1, name, r.info, numItems, j) :
                     numItems \in { getFieldValue(r.o, r.info, j) },
                     o1 \in { [sawFieldValue(r.o, r.info)
                                 EXCEPT !.mDataOffset =
                                   U32Add(r.o.mDataOffset, r.info.headerBytes)] } }) :
          r \in { getNextField(o, j) } })

---------------------------------------------------------------------------
(* Accessors.  Each returns [o, ret]: the object after the call and the    *)
(* value returned.  An integer or float is returned as its bytes, a        *)
(* pointer as [def, at]: the caller's default, or the offset in mBuf.      *)

DefaultPtr == [def |-> TRUE, at |-> 0]
BufPtr(at) == [def |-> FALSE, at |-> at]

\* T(value) and T(-value - 1) for the bytes of an unsigned value
castPos(T, value) == Resize(value, T.size)
\* castNeg as it would be if the negative branch returned T(value)
castNegAsPos(T, value) == Resize(value, T.size)
castNeg(T, value) == Resize(Complement(value), T.size)

\* template <typename T> T get(const char *name, const T defaultValue), T integral
getIntOf(e, T, defaultValue, j) ==
    LET element == e.info
        wide == element.headerBytes = 9
        value == IF wide THEN bytesAt(e.o, element.p + 1, 8, j)
                 ELSE U32Bytes(getFieldValue(e.o, element, j))
        o1 == IF wide THEN noteRead(e.o, element.p + 1, element.p + 8)
              ELSE sawFieldValue(e.o, element)
    IN  [o |-> o1,
         ret |-> IF element.majorval = kCborPosInt THEN castPos(T, value)
                 ELSE IF element.majorval = kCborNegInt THEN castNeg(T, value)
                 ELSE defaultValue]

getInt(o, T, name, defaultValue, j) ==
    The({ getIntOf(e, T, defaultValue, j) : e \in { findElement(o, name, j) } })

\* bool get(const char *name, const bool defaultValue)
getBool(o, name, defaultValue, j) ==
    The({ [o |-> e.o,
           ret |-> IF e.info.majorval = kCborSimple
                   THEN IF e.info.minorval = 20 THEN FALSE
                        ELSE IF e.info.minorval = 21 THEN TRUE ELSE defaultValue
                   ELSE defaultValue] :
          e \in { findElement(o, name, j) } })

\* float get(const char *name, const float defaultValue)
getFloatOf(e, defaultValue, j) ==
    LET found == e.info.majorval = kCborSimple /\ e.info.minorval = 26
    IN  [o |-> IF found THEN sawFieldValue(e.o, e.info) ELSE e.o,
         ret |-> IF found THEN U32Bytes(getFieldValue(e.o, e.info, j))
                 ELSE defaultValue]

getFloat(o, name, defaultValue, j) ==
    The({ getFloatOf(e, defaultValue, j) : e \in { findElement(o, name, j) } })

\* const char *get(const char *name, T defaultValue), T a char pointer
getString(o, name, j) ==
    The({ [o |-> e.o,
           ret |-> IF e.info.majorval = kCborUTF8String
                   THEN BufPtr(e.info.p + e.info.headerBytes) ELSE DefaultPtr] :
          e \in { findElement(o, name, j) } })

\* getLength as it would be if it returned the length of the payload as
\* stored, the terminator included
getLengthRaw(e, j) ==
    IF e.info.majorval # kCborError
    THEN [o |-> sawFieldValue(e.o, e.info), ret |-> getFieldValue(e.o, e.info, j)]
    ELSE [o |-> e.o, ret |-> 0]

\* uint32_t getLength(const char *name)
getLengthOf(e, j) ==
    LET element == e.info
        len == getFieldValue(e.o, element, j)
        index == U32Add(element.headerBytes, U32Dec(len))
        lastAt == IF index < 0 THEN MaxInt32 ELSE element.p + index
        isString == element.majorval = kCborUTF8String
    IN  IF element.majorval # kCborError
        THEN [o |-> IF isString
                    THEN noteRead(sawFieldValue(e.o, element), lastAt, lastAt)
                    ELSE sawFieldValue(e.o, element),
              ret |-> IF isString /\ byteAt(e.o, lastAt, j) = 0
                      THEN U32Dec(len) ELSE len]
        ELSE [o |-> e.o, ret |-> 0]

getLength(o, name, j) ==
    The({ getLengthOf(e, j) : e \in { findElement(o, name, j) } })

\* getFieldValue(element) / sizeof(T) as a size_t
lengthOver(len, size) ==
    IF len >= 0 THEN len \div size
    ELSE (len \div size) + (2 * ((MaxInt32 \div size) + 1))

\* template <typename T> CborArray<T> getPointer(name, const T *defaultValue)
getPointerOf(e, T, j) ==
    LET element == e.info
    IN  IF element.tag # kCborTagInfo(T)
        THEN [o |-> e.o, ret |-> [length |-> 0, p |-> DefaultPtr]]
        ELSE [o |-> sawFieldValue(e.o, element),
              ret |-> [length |-> lengthOver(getFieldValue(e.o, element, j), T.size),
                       p |-> BufPtr(element.p + element.headerBytes)]]

getPointer(o, T, name, j) ==
    The({ getPointerOf(e, T, j) : e \in { findElement(o, name, j) } })

\* the memory from the offset at on
memoryFrom(o, at) == SubSeq(o.mBuf, at + 1, Len(o.mBuf))

\* MicroCbor getMap(const char *name): ret is the instance returned, at the
\* offset in mBuf of the memory it is bound to
getMapOf(e) ==
    IF e.info.majorval = kCborMap
    THEN [o |-> e.o, at |-> e.info.p,
          ret |-> [MicroCborMutable(memoryFrom(e.o, e.info.p),
                                    U32Add(e.o.mMaxBufLen, -e.o.mDataOffset), TRUE)
                     EXCEPT !.xAlias = e.o.xAlias]]
    ELSE [o |-> e.o, at |-> 0, ret |-> [MicroCborDefault EXCEPT !.xAlias = e.o.xAlias]]

getMap(o, name, j) == The({ getMapOf(e) : e \in { findElement(o, name, j) } })

---------------------------------------------------------------------------
(* Element types *)

I8 == [size |-> 1, signed |-> TRUE, float |-> FALSE]
I16 == [size |-> 2, signed |-> TRUE, float |-> FALSE]
I32 == [size |-> 4, signed |-> TRUE, float |-> FALSE]
I64 == [size |-> 8, signed |-> TRUE, float |-> FALSE]
U8 == [size |-> 1, signed |-> FALSE, float |-> FALSE]
U16 == [size |-> 2, signed |-> FALSE, float |-> FALSE]
U32 == [size |-> 4, signed |-> FALSE, float |-> FALSE]
U64 == [size |-> 8, signed |-> FALSE, float |-> FALSE]
IntTypes == {I8, I16, I32, I64, U8, U16, U32, U64}

---------------------------------------------------------------------------
(* The caller.  calls holds the caller's position: mode is the kind of     *)
(* caller, phase its place in the write-then-read pattern, left and        *)
(* opensLeft the encode calls it may still make, hist the encode and       *)
(* restart calls made so far.  last is the call made last, with the state  *)
(* it found, the bytes of mBuf it changed and what it returned.            *)
(*                                                                         *)
(*   free     any encode call or restart in any order                      *)
(*   pattern  startMap, adds, endMap, restart, then lookups                *)
(*   decode   lookups on a buffer received from elsewhere                  *)
(*                                                                         *)
(* A reading caller makes one lookup.                                      *)

\* bounds of the model
MaxCalls == 3
MaxPairs == 25
MaxLen == 3
\* enough startMap calls to pass the nesting limit and be refused
MaxOpens == CONFIG_MICROCBOR_MAX_NESTING + 2

Zeros(n) == [i \in 1..n |-> 0]

\* the bytes of the array the caller passes: 1, 2, 3, ...
ArrayBytes(T, n) == [i \in 1..(n * T.size) |-> i]

\* the frames an mMapState index outside the array may read
GarbageFrames(o) ==
    { [mapStartPos |-> p, mapStartCount |-> 0, mapCount |-> c] :
        p \in {0, o.mDataOffset}, c \in {0, 1, 256} }

\* what an uninitialised TypeInfo field or a byte outside the memory holds
Junk ==
    { [tag |-> kCborTagInvalid, minorval |-> 0, headerBytes |-> 0, p |-> 0, byte |-> 0],
      [tag |-> 78, minorval |-> 21, headerBytes |-> 9, p |-> 1000, byte |-> 97] }

\* the offsets at which two memories differ
Changed(a, b) == { i \in 0..(Len(a) - 1) : a[i + 1] # b[i + 1] }

EncodeOps == {"startMap", "startMapNamed", "endMap", "add", "addMinimal"}
LookupOps == {"getInt", "getBool", "getFloat", "getString", "getLength", "getPointer"}

\* whether the caller may make the call now
May(op, h) ==
    CASE calls.mode = "free" ->
           IF op = "startMap" /\ h = 0 THEN calls.opensLeft > 0 \/ calls.left > 0
           ELSE op \notin LookupOps /\ calls.left > 0
      [] calls.mode = "pattern" ->
           CASE op \in {"startMap", "encodeHeader"} -> calls.phase = "new"
             [] op \in {"add", "addMinimal", "startMapNamed"} ->
                  calls.phase = "open" /\ calls.left > 0
             [] op = "endMap" -> calls.phase = "open"
             [] op = "restart" -> calls.phase = "closed"
             [] OTHER -> calls.phase = "read"
      [] OTHER -> op \in LookupOps \cup {"getMapWrite"} /\ calls.phase = "read"

\* the caller's position after the call
After(op, h, rec) ==
    CASE calls.mode = "free" ->
           IF op = "startMap" /\ h = 0 /\ calls.opensLeft > 0
           THEN [calls EXCEPT !.opensLeft = @ - 1, !.hist = Append(@, rec)]
           ELSE [calls EXCEPT !.left = @ - 1, !.hist = Append(@, rec)]
      [] calls.mode = "pattern" ->
           CASE op = "startMap" -> [calls EXCEPT !.phase = "open", !.hist = Append(@, rec)]
             [] op = "encodeHeader" ->
                  [calls EXCEPT !.phase = "closed", !.hist = Append(@, rec)]
             [] op \in {"add", "addMinimal", "startMapNamed"} ->
                  [calls EXCEPT !.left = @ - 1, !.hist = Append(@, rec)]
             [] op = "endMap" ->
                  [calls EXCEPT !.phase = IF cbor.mDepth > 0 THEN "open" ELSE "closed",
                                !.hist = Append(@, rec)]
             [] op = "restart" -> [calls EXCEPT !.phase = "read", !.hist = Append(@, rec)]
             [] OTHER -> [calls EXCEPT !.phase = "looked"]
      [] OTHER -> [calls EXCEPT !.phase = "looked"]

\* an encode call or restart: args names the call, after is the object it leaves
Call(args, h, after) ==
    LET rec == [args EXCEPT !.res = after.mResult]
    IN  /\ May(args.op, h)
        /\ cbor' = after
        /\ last' = [call |-> rec, preResult |-> cbor.mResult, preDepth |-> cbor.mDepth,
                     preOffset |-> cbor.mDataOffset, preNeeded |-> cbor.mBufBytesNeeded,
                     changed |-> Changed(cbor.mBuf, after.mBuf), ret |-> << >>]
        /\ calls' = After(args.op, h, rec)

\* a lookup: r is [o, ret]
Lookup(args, r) ==
    /\ May(args.op, 0)
    /\ cbor' = r.o
    /\ meas' = meas
    /\ last' = [call |-> args, preResult |-> cbor.mResult, preDepth |-> cbor.mDepth,
                 preOffset |-> cbor.mDataOffset, preNeeded |-> cbor.mBufBytesNeeded,
                 changed |-> Changed(cbor.mBuf, r.o.mBuf), ret |-> <<r.ret>>]
    /\ calls' = After(args.op, 0, args)

Args(op, kind, T, name, v) ==
    [op |-> op, kind |-> kind, T |-> T, name |-> name, v |-> v, res |-> 0]

StartMap(h) ==
    /\ Call(Args("startMap", "map", U32, << >>, h), h, startMap(cbor, h))
    /\ meas' = startMap(meas, h)

StartMapNamed(name) ==
    /\ Call(Args("startMapNamed", "map", U32, name, 0), 0, startMapNamed(cbor, name, 0))
    /\ meas' = startMapNamed(meas, name, 0)

EndMap ==
    \E g \in GarbageFrames(cbor) :
       /\ Call(Args("endMap", "map", U32, << >>, 0), 0, endMap(cbor, g))
       /\ meas' = endMap(meas, g)

AddInt(T, name, v) ==
    /\ Call(Args("add", "int", T, name, v), 0, addInt(cbor, T, name, v))
    /\ meas' = addInt(meas, T, name, v)

AddBool(name, b) ==
    /\ Call(Args("add", "bool", U8, name, b), 0, addBool(cbor, name, b))
    /\ meas' = addBool(meas, name, b)

AddString(name, v) ==
    /\ Call(Args("add", "string", U8, name, v), 0, addString(cbor, name, v))
    /\ meas' = addString(meas, name, v)

AddMinimal(T, name, v) ==
    /\ Call(Args("addMinimal", "int", T, name, v), 0, addMinimal(cbor, T, name, v))
    /\ meas' = addMinimal(meas, T, name, v)

AddFloat(name, v) ==
    /\ Call(Args("add", "float", U32, name, v), 0, addFloat(cbor, name, v))
    /\ meas' = addFloat(meas, name, v)

AddArray(T, name, n, align) ==
    /\ Call(Args("add", IF align THEN "aligned" ELSE "array", T, name, n), 0,
            addArray(cbor, T, name, ArrayBytes(T, n), n, align))
    /\ meas' = addArray(meas, T, name, ArrayBytes(T, n), n, align)

Restart ==
    /\ Call(Args("restart", "", U32, << >>, 0), 0, restart(cbor))
    /\ meas' = restart(meas)

GetInt(T, name, d) ==
    \E j \in Junk : Lookup(Args("getInt", "int", T, name, d), getInt(cbor, T, name, d, j))

GetBool(name, d) ==
    \E j \in Junk : Lookup(Args("getBool", "bool", U8, name, d), getBool(cbor, name, d, j))

GetFloat(name, d) ==
    \E j \in Junk : Lookup(Args("getFloat", "float", U32, name, d), getFloat(cbor, name, d, j))

GetString(name) ==
    \E j \in Junk :
       Lookup(Args("getString", "string", U8, name, DefaultPtr), getString(cbor, name, j))

GetLength(name) ==
    \E j \in Junk : Lookup(Args("getLength", "", U32, name, 0), getLength(cbor, name, j))

GetPointer(T, name) ==
    \E j \in Junk :
       Lookup(Args("getPointer", "array", T, name, DefaultPtr), getPointer(cbor, T, name, j))

\* getMap(name): returns the scope of the instance returned
GetMap(name) ==
    \E j \in Junk :
       Lookup(Args("getMap", "map", U32, name, 0),
              The({ [o |-> m.o,
                     ret |-> [found |-> m.ret.mMaxBufLen # 0, at |-> m.at,
                              length |-> m.ret.mMaxBufLen]] :
                    m \in { getMap(cbor, name, j) } }))

\* getMap(outer).get<T>(name, d)
GetMapGet(outer, T, name, d) ==
    \E j \in Junk :
       Lookup(Args("getMapGet", "int", T, name, d),
              The({ [o |-> m.o, ret |-> getInt(m.ret, T, name, d, j).ret] :
                    m \in { getMap(cbor, outer, j) } }))

\* getMap(outer); get<T>(name, d) on the instance itself
GetMapThenGet(outer, T, name, d) ==
    \E j \in Junk :
       Lookup(Args("getMapThenGet", "int", T, name, d),
              The({ getInt(m.o, T, name, d, j) : m \in { getMap(cbor, outer, j) } }))

\* encodeHeader(majorval, len), called on its own
EncodeHeader(majorval, len) ==
    /\ Call(Args("encodeHeader", "", U32, << >>, <<majorval, len>>), 0,
            encodeHeader(cbor, majorval, len))
    /\ meas' = encodeHeader(meas, majorval, len)

\* getNextField() and getFieldValue on the item it returns
GetNextField ==
    \E j \in Junk :
       Lookup(Args("getNextField", "", U32, << >>, 0),
              The({ [o |-> r.o,
                     ret |-> [majorval |-> r.info.majorval, tag |-> r.info.tag,
                              headerBytes |-> r.info.headerBytes,
                              value |-> getFieldValue(r.o, r.info, j)]] :
                    r \in { getNextField(cbor, j) } }))

\* the memory of o after the instance child, bound to it at the offset at,
\* has written to its buffer
writtenThrough(o, at, child) ==
    IF child.mMaxBufLen = 0 THEN o
    ELSE [o EXCEPT !.mBuf = SubSeq(o.mBuf, 1, at) \o child.mBuf]

\* MicroCbor m = getMap(name); m.startMap(); m.add(key, true): returns
\* whether the map was found and the result after each of the two calls
GetMapWrite(name, key) ==
    \E j \in Junk :
       Lookup(Args("getMapWrite", "map", U8, name, key),
              The({ The({ The({ [o |-> writtenThrough(m.o, m.at, added),
                                 ret |-> [found |-> m.ret.mMaxBufLen # 0,
                                          started |-> getResult(started),
                                          added |-> getResult(added)]] :
                                added \in { addBool(started, key, TRUE) } }) :
                          started \in { startMap(m.ret, 0) } }) :
                    m \in { getMap(cbor, name, j) } }))

NoCall ==
    [call |-> Args("new", "", U32, << >>, 0), preResult |-> 0, preDepth |-> -1,
     preOffset |-> 0, preNeeded |-> 0, changed |-> {}, ret |-> << >>]

Caller(mode, left, opensLeft) ==
    [mode |-> mode, phase |-> IF mode = "decode" THEN "read" ELSE "new", left |-> left, opensLeft |-> opensLeft,
     hist |-> << >>]

---------------------------------------------------------------------------
(* The free caller on small buffers: mutable, const, and none at all, in   *)
(* a build that lays the members out in declaration order and in one that  *)
(* does not                                                                *)

KeyA == <<97>>
Hints == { 0, 24 }
Pi == <<64, 73, 15, 219>>
MinusTwo == <<255, 255, 255, 255, 255, 255, 255, 254>>

Instances ==
    { MicroCborMutable(Zeros(0), 0, TRUE), MicroCborMutable(Zeros(3), 3, TRUE),
      MicroCborMutable(Zeros(12), 12, FALSE), MicroCborConst(Zeros(3), 3, FALSE),
      MicroCborDefault }

Builds(instances) == { [i EXCEPT !.xAlias = a] : i \in instances, a \in BOOLEAN }

\* the instance of TEST(microcbor, basic) that measures the same calls
Measuring(o) == [MicroCborMutable(<< >>, 0, o.mNullTerminate) EXCEPT !.xAlias = o.xAlias]

Init ==
    /\ cbor \in Builds(Instances)
    /\ meas = Measuring(cbor)
    /\ last = NoCall
    /\ calls = Caller("free", MaxCalls, 0)

Encode ==
    \/ \E h \in Hints : StartMap(h)
    \/ StartMapNamed(KeyA)
    \/ EndMap
    \/ AddInt(I64, << >>, MinusTwo)
    \/ AddBool(<< >>, TRUE)
    \/ AddString(KeyA, <<104, 105>>)
    \/ AddMinimal(U32, KeyA, <<0, 1, 0, 0>>)
    \/ AddFloat(<< >>, Pi)
    \/ AddArray(I16, KeyA, 1, TRUE)

Next == Encode \/ Restart

Spec == Init /\ [][Next]_vars

---------------------------------------------------------------------------
(* The measuring caller: the same calls on a buffer with room for all of   *)
(* them and on the zero-length instance meas                               *)

\* room for the headers of the maps and for every other call
BigCap == (CONFIG_MICROCBOR_MAX_NESTING + 1) + (12 * (MaxCalls + 1))

InitMeasure ==
    /\ cbor \in { [MicroCborMutable(Zeros(BigCap), BigCap, b) EXCEPT !.xAlias = b] :
                     b \in BOOLEAN }
    /\ meas = Measuring(cbor)
    /\ last = NoCall
    /\ calls = Caller("free", MaxCalls, MaxOpens)

NextMeasure ==
    \/ StartMap(0)
    \/ EndMap
    \/ AddInt(I64, KeyA, MinusTwo)
    \/ AddString(KeyA, <<104, 105>>)
    \/ AddArray(I16, KeyA, 1, TRUE)

SpecMeasure == InitMeasure /\ [][NextMeasure]_vars

---------------------------------------------------------------------------
(* The round trip of one field: startMap(), one add, endMap(), restart(),  *)
(* then lookups, on buffers that fit the field exactly, are larger, or     *)
(* are too small                                                           *)

ByteEdges == { 0, 1, 23, 24, 127, 128, 255 }
Ramp(n) == [i \in 1..n |-> 16 * i + i]

\* values of a type of n bytes: the extremes of the signed and the
\* unsigned type, values around zero, and one with all bytes different
Vals(n) ==
    IF n = 1 THEN { <<b>> : b \in ByteEdges }
    ELSE { <<top>> \o [i \in 1..(n - 2) |-> fill] \o <<low>> :
             top \in {0, 127, 128, 255}, fill \in {0, 255}, low \in {0, 1, 255} }
           \cup { Ramp(n) }

\* a default that is none of the values written
DefaultOf(n) == [i \in 1..n |-> 165]

WriteNames == { <<97>>, <<97, 98>> }
LookNames == WriteNames \cup { <<98>> }
CapsRT == { 5, 12, 16 }
ArrayTypes == { I32, U8 }

InitRT ==
    /\ cbor \in { MicroCborMutable(Zeros(c), c, TRUE) : c \in CapsRT } \cup { MicroCborDefault }
    /\ meas = Measuring(cbor)
    /\ last = NoCall
    /\ calls = Caller("pattern", 1, 0)

Lookups(names, types) ==
    \/ \E T \in types, name \in names : GetInt(T, name, DefaultOf(T.size))
    \/ \E name \in names, d \in BOOLEAN : GetBool(name, d)
    \/ \E name \in names : GetFloat(name, Zeros(4))
    \/ \E name \in names : GetString(name)
    \/ \E name \in names : GetLength(name)
    \/ \E T \in ArrayTypes, name \in names : GetPointer(T, name)

NextRT ==
    \/ StartMap(0)
    \/ \E T \in IntTypes, name \in WriteNames : \E v \in Vals(T.size) : AddInt(T, name, v)
    \/ \E name \in WriteNames, b \in BOOLEAN : AddBool(name, b)
    \/ \E T \in IntTypes : \E v \in Vals(T.size) : AddMinimal(T, KeyA, v)
    \/ EndMap
    \/ Restart
    \/ Lookups(LookNames, IntTypes)

SpecRT == InitRT /\ [][NextRT]_vars

---------------------------------------------------------------------------
(* The map of N pairs: startMap(hint), N adds with the keys "a", "b", ...  *)
(* and the values 0, 1, ..., endMap(), restart(), then lookups             *)

CountHints == { 0, 1, 2, 24, 25, 256 }
KeyOf(i) == << 97 + i >>
PairsAdded == MaxPairs - calls.left
CountCap == 5 + (4 * (MaxPairs + 1))

InitCount ==
    /\ cbor = MicroCborMutable(Zeros(CountCap), CountCap, TRUE)
    /\ meas = Measuring(cbor)
    /\ last = NoCall
    /\ calls = Caller("pattern", MaxPairs, 0)

NextCount ==
    \/ \E h \in CountHints : StartMap(h)
    \/ AddInt(U8, KeyOf(PairsAdded), <<PairsAdded>>)
    \/ EndMap
    \/ Restart
    \/ \E k \in 0..(MaxPairs - 1) : GetInt(U8, KeyOf(k), <<255>>)

SpecCount == InitCount /\ [][NextCount]_vars

---------------------------------------------------------------------------
(* The reader on a buffer received from elsewhere: any bytes of the        *)
(* alphabet, declared length up to MaxLen, followed in memory by bytes     *)
(* that are not part of the buffer                                         *)

DecodeBytes == { 0, 97, 98, 161, 191, 193 }
Slack == { <<0, 0>>, <<97, 0>> }

RECURSIVE BytesOfLen(_)
BytesOfLen(n) ==
    IF n = 0 THEN { << >> }
    ELSE { <<b>> \o t : b \in DecodeBytes, t \in BytesOfLen(n - 1) }

\* the map { "a": item } for an item of each kind: an integer, true, a
\* float, a string, a byte string, typed arrays, a tagged integer, a map
FieldItems ==
    { <<24, 7>>, <<245>>, <<250, 64, 73, 15, 219>>, <<97, 104>>, <<65, 1>>,
      <<216, 78, 68, 1, 2, 3, 4>>, <<216, 64, 65, 1>>, <<216, 78, 5>>, <<160>> }
FieldBuffers == { <<161, 97, 97>> \o item : item \in FieldItems }

\* map headers that declare 23 pairs, with no pair after them
LongMaps == { <<183>>, <<183, 97>> }

\* the map { "a": { }, "b": 0 }
NestedBuffer == <<162, 97, 97, 160, 97, 98, 0>>

InitDecode ==
    /\ cbor \in { MicroCborConst(b \o sl, Len(b), FALSE) :
                     b \in UNION { BytesOfLen(n) : n \in 0..MaxLen } \cup FieldBuffers
                            \cup LongMaps \cup { NestedBuffer },
                     sl \in Slack }
                  \cup { MicroCborDefault }
    /\ meas = Measuring(cbor)
    /\ last = NoCall
    /\ calls = Caller("decode", 0, 0)

NextDecode ==
    \/ Lookups({ <<97>>, <<97, 98>> }, { I8, U64 })
    \/ GetMapWrite(KeyA, KeyA)

SpecDecode == InitDecode /\ [][NextDecode]_vars

---------------------------------------------------------------------------
(* A map with a nested map: startMap(), fields "a", "b", ... of type       *)
(* uint8_t, startMap("M") with fields "a", "b", ... of type uint16_t,      *)
(* endMap(), further fields, endMap(), restart(), then lookups             *)

MaxInner == 2
KeyM == << 77 >>
NestCap == 8 + (4 * ((MaxPairs + MaxInner) + 1))

\* the fields added so far to the nested map, and to the outer map
InnerAdded == Cardinality({ i \in 1..Len(calls.hist) :
                              calls.hist[i].op = "add" /\ calls.hist[i].T = U16 })
OuterAdded == Cardinality({ i \in 1..Len(calls.hist) :
                              calls.hist[i].op = "add" /\ calls.hist[i].T = U8 })
NestOpened == \E i \in 1..Len(calls.hist) : calls.hist[i].op = "startMapNamed"

InitNest ==
    /\ cbor = MicroCborMutable(Zeros(NestCap), NestCap, TRUE)
    /\ meas = Measuring(cbor)
    /\ last = NoCall
    /\ calls = Caller("pattern", MaxPairs, 0)

NextNest ==
    \/ StartMap(0)
    \/ (cbor.mDepth = 0 /\ AddInt(U8, KeyOf(OuterAdded), <<OuterAdded>>))
    \/ (cbor.mDepth = 0 /\ ~NestOpened /\ StartMapNamed(KeyM))
    \/ (cbor.mDepth = 1 /\ InnerAdded < MaxInner
           /\ AddInt(U16, KeyOf(InnerAdded), <<1, InnerAdded>>))
    \/ EndMap
    \/ Restart
    \/ \E k \in 0..(MaxPairs - 1) : GetInt(U8, KeyOf(k), <<255>>)
    \/ GetMap(KeyM)
    \/ \E k \in 0..(MaxInner - 1) : GetMapGet(KeyM, U16, KeyOf(k), <<255, 255>>)
    \/ \E k \in {0, OuterAdded - 1} : GetMapThenGet(KeyM, U8, KeyOf(k), <<255>>)

SpecNest == InitNest /\ [][NextNest]_vars

---------------------------------------------------------------------------
(* Strings and aligned arrays: startMap(), up to two fields, each a string *)
(* or an aligned array, endMap(), restart(), then lookups, on an instance  *)
(* that null-terminates strings and on one that does not.  The first field *)
(* moves the offset at which the second is written.                        *)

KeyS == << 115 >>
KeyT == << 116 >>
Name23 == [i \in 1..23 |-> 110]
StringLens == { 0, 1, 2, 23, 24 }
StringOf(n) == [i \in 1..n |-> 104]
AlignedTypes == { U8, I16, I32, I64 }
ArrayCap == 2 * 80

InitArray ==
    /\ cbor \in { MicroCborMutable(Zeros(ArrayCap), ArrayCap, nt) : nt \in BOOLEAN }
    /\ meas = Measuring(cbor)
    /\ last = NoCall
    /\ calls = Caller("pattern", 2, 0)

NextArray ==
    \/ StartMap(0)
    \/ \E name \in {KeyS, KeyT}, n \in StringLens : AddString(name, StringOf(n))
    \/ \E T \in AlignedTypes, name \in {KeyA, Name23}, n \in 0..2 : AddArray(T, name, n, TRUE)
    \/ EndMap
    \/ Restart
    \/ \E T \in AlignedTypes, name \in {KeyA, Name23} : GetPointer(T, name)
    \/ \E name \in {KeyS, KeyT} : GetLength(name)
    \/ \E name \in {KeyS, KeyT} : GetString(name)

SpecArray == InitArray /\ [][NextArray]_vars

---------------------------------------------------------------------------
(* The header codec: encodeHeader(m, n) on a fresh instance, restart(),    *)
(* then getNextField and getFieldValue, on a buffer the longest header     *)
(* fills and on a larger one                                               *)

MajorTypes == 0..7
HeaderLens ==
    { 0, 1, 23, 24, 25, 255, 256, 257, 65535, 65536, 65537, 16777216, MaxInt32, -2, -1 }
HeaderCaps == { 5, 8 }

InitHeader ==
    /\ cbor \in { MicroCborMutable(Zeros(c), c, TRUE) : c \in HeaderCaps }
    /\ meas = Measuring(cbor)
    /\ last = NoCall
    /\ calls = Caller("pattern", 0, 0)

NextHeader ==
    \/ \E m \in MajorTypes, n \in HeaderLens : EncodeHeader(m, n)
    \/ Restart
    \/ GetNextField

SpecHeader == InitHeader /\ [][NextHeader]_vars

---------------------------------------------------------------------------
(* Claims *)

\* the object after the encode call c on o
Apply(o, c, g) ==
    CASE c.op = "startMap" -> startMap(o, c.v)
      [] c.op = "startMapNamed" -> startMapNamed(o, c.name, 0)
      [] c.op = "endMap" -> endMap(o, g)
      [] c.op = "addMinimal" -> addMinimal(o, c.T, c.name, c.v)
      [] c.op = "add" /\ c.kind = "int" -> addInt(o, c.T, c.name, c.v)
      [] c.op = "add" /\ c.kind = "bool" -> addBool(o, c.name, c.v)
      [] c.op = "add" /\ c.kind = "string" -> addString(o, c.name, c.v)
      [] c.op = "add" /\ c.kind = "float" -> addFloat(o, c.name, c.v)
      [] c.op = "add" /\ c.kind = "aligned" ->
           addArray(o, c.T, c.name, ArrayBytes(c.T, c.v), c.v, TRUE)
      [] c.op = "add" /\ c.kind = "array" ->
           addArray(o, c.T, c.name, ArrayBytes(c.T, c.v), c.v, FALSE)
      [] OTHER -> o

\* o with its error cleared and room for any call, the cursor where a
\* buffer with room would have it
Roomy(o) ==
    [o EXCEPT !.mResult = 0, !.mMaxBufLen = MaxInt32, !.mDataOffset = o.mBufBytesNeeded]

\* the bytes the call c takes when it has room
WouldAppend(o, c) ==
    bytesSerialized(Apply(Roomy(o), c, ZeroFrame)) - bytesSerialized(Roomy(o))

\* the flag bytes are as the constructor set them
FlagsIntact(o) == o.xFlags < 0

Hist == calls.hist

\* the caller wrote startMap(), one add of the kind, endMap(), restart(),
\* without error, and then looked up a name
WroteOne(kind) ==
    /\ calls.mode = "pattern" /\ calls.phase = "looked"
    /\ Len(Hist) = 4
    /\ Hist[1].op = "startMap" /\ Hist[1].v = 0
    /\ Hist[2].op = "add" /\ Hist[2].kind = kind
    /\ Hist[3].op = "endMap" /\ Hist[3].res = 0
    /\ Hist[4].op = "restart"

\* C1: after startMap(); add<T>(key, v); endMap(); restart() without error,
\* get<T>(key, d) returns v, for the integer types and for bool
C1_RoundTrip ==
    /\ (WroteOne("int") /\ last.call.op = "getInt" /\ last.call.T = Hist[2].T
           /\ last.call.name = Hist[2].name)
          => last.ret = << Hist[2].v >>
    /\ (WroteOne("bool") /\ last.call.op = "getBool" /\ last.call.name = Hist[2].name)
          => last.ret = << Hist[2].v >>

\* the minimum of int64_t went through the round trip
C1_Witness ==
    /\ WroteOne("int") /\ last.call.op = "getInt" /\ last.call.T = I64
    /\ Hist[2].T = I64 /\ Hist[2].v = <<128, 0, 0, 0, 0, 0, 0, 0>>
    /\ last.call.name = Hist[2].name
    /\ last.ret = << Hist[2].v >>

\* C2: no lookup reads a byte at an index >= the declared length of the
\* buffer, nor the header-length table outside its 28 entries
C2_DecodeInBounds ==
    /\ cbor.xMaxRead < cbor.mMaxBufLen
    /\ ~cbor.xTableOOB

\* C3: on a mutable buffer every byte written lies at an index below the
\* capacity, and bytesSerialized() is at most the capacity
C3_WriterInBounds ==
    (FlagsIntact(cbor) /\ ~cbor.mReadOnly)
      => /\ cbor.xMaxWrite < Len(cbor.mBuf)
         /\ bytesSerialized(cbor) <= Len(cbor.mBuf)

\* C4: a sequence with a startMap or an add, run on a zero-length buffer,
\* ends with a non-zero result and with bytesNeeded() equal to the
\* bytesNeeded() and the bytesSerialized() of its run on the large buffer
C4_CapacityMeasurement ==
    (\E i \in 1..Len(Hist) : Hist[i].op # "endMap")
      => /\ getResult(meas) # 0
         /\ bytesNeeded(meas) = bytesNeeded(cbor)
         /\ bytesNeeded(meas) = bytesSerialized(cbor)

\* C5: an encode call made while the result is non-zero leaves the result
\* non-zero, changes no buffer byte and not bytesSerialized(), and adds to
\* bytesNeeded() the size the call takes when it has room
C5_StickyError ==
    [][ (getResult(cbor) # 0 /\ last'.call.op \in EncodeOps)
          => /\ getResult(cbor') # 0
             /\ cbor'.mBuf = cbor.mBuf
             /\ cbor'.xMaxWrite = cbor.xMaxWrite
             /\ bytesSerialized(cbor') = bytesSerialized(cbor)
             /\ bytesNeeded(cbor') = bytesNeeded(cbor) + WouldAppend(cbor, last'.call) ]_vars

\* C6: on an instance bound to a read-only buffer every mutating call sets
\* a non-zero result and leaves every buffer byte unchanged
C6_ReadOnlyRefusal ==
    (FlagsIntact(cbor) /\ cbor.mReadOnly /\ last.call.op \in EncodeOps)
      => /\ getResult(cbor) # 0
         /\ last.changed = {}
         /\ cbor.xMaxWrite = -1

\* C7: never more than CONFIG_MICROCBOR_MAX_NESTING maps are open, and a
\* startMap made when that many are open sets a non-zero result, pushes
\* no frame and writes no header byte
C7_NestingBound ==
    /\ cbor.mDepth + 1 <= CONFIG_MICROCBOR_MAX_NESTING
    /\ (last.call.op = "startMap" /\ last.preDepth + 1 >= CONFIG_MICROCBOR_MAX_NESTING)
          => /\ getResult(cbor) # 0
             /\ cbor.mDepth = last.preDepth
             /\ last.changed = {}
             /\ bytesSerialized(cbor) = last.preOffset

\* the caller wrote startMap(h), N adds, endMap(), restart(), without error
WroteMap ==
    /\ calls.mode = "pattern" /\ calls.phase \in {"read", "looked"}
    /\ Hist[Len(Hist) - 1].res = 0

PairsWritten == Len(Hist) - 3

\* the pair count the buffer of o decodes to from its first byte, -1 when
\* its first item is not a map
DecodedPairs(o) ==
    LET f == getNextField([o EXCEPT !.mDataOffset = 0], CHOOSE j \in Junk : TRUE)
    IN  IF f.info.majorval = kCborMap
        THEN getFieldValue(f.o, f.info, CHOOSE j \in Junk : TRUE)
        ELSE -1

\* C8: startMap(h); N adds; endMap() decodes as a map of N pairs, and each
\* of the N keys is retrieved with its value
C8_MapCountPatch ==
    WroteMap
      => /\ DecodedPairs(cbor) = PairsWritten
         /\ (last.call.op = "getInt" /\ last.call.name[1] - 97 < PairsWritten)
               => last.ret = << << last.call.name[1] - 97 >> >>

\* the length of the header startMap(h) writes
MapHeaderLength(h) ==
    IF h < 24 THEN 1 ELSE IF h < 256 THEN 2 ELSE IF h < 65536 THEN 3 ELSE 5

\* C9: endMap changes only bytes of the header that startMap wrote for the
\* map it closes
C9_EndMapFrame ==
    (calls.mode = "pattern" /\ last.call.op = "endMap")
      => last.changed \subseteq 0..(MapHeaderLength(Hist[1].v) - 1)

\* what an accessor returns when it returns the caller's default
ReturnsDefault ==
    CASE last.call.op = "getLength" -> last.ret = << 0 >>
      [] last.call.op = "getPointer" -> last.ret[1].p = DefaultPtr
      [] OTHER -> last.ret = << last.call.v >>

\* the name looked up is not a key of the map written
AbsentName ==
    /\ calls.mode = "pattern" /\ calls.phase = "looked"
    /\ Hist[Len(Hist) - 1].res = 0
    /\ \A i \in 1..Len(Hist) :
          Hist[i].op = "add" => Hist[i].name # last.call.name

\* the instance was default-constructed and has no buffer
NoBuffer == cbor.mMaxBufLen = 0 /\ Len(cbor.mBuf) = 0

\* C10: a lookup of a name that is not a key of the map returns the
\* default (getLength returns 0), and so does every lookup on an instance
\* without a buffer
C10_DefaultsOnAbsence ==
    (last.call.op \in LookupOps /\ (AbsentName \/ NoBuffer)) => ReturnsDefault

\* what the lookup c returns on o, and the object it leaves
Read(o, c, j) ==
    CASE c.op = "getInt" -> getInt(o, c.T, c.name, c.v, j)
      [] c.op = "getBool" -> getBool(o, c.name, c.v, j)
      [] c.op = "getFloat" -> getFloat(o, c.name, c.v, j)
      [] c.op = "getString" -> getString(o, c.name, j)
      [] c.op = "getLength" -> getLength(o, c.name, j)
      [] OTHER -> getPointer(o, c.T, c.name, j)

\* C11: a lookup leaves the cursor where it was and every buffer byte as
\* it was, and the same lookup made again returns the same result
C11_IdempotentLookup ==
    last.call.op \in LookupOps
      => /\ cbor.mDataOffset = last.preOffset
         /\ last.changed = {}
         /\ \A j \in Junk : << Read(cbor, last.call, j).ret >> = last.ret

\* the caller wrote a map with a nested map, without error, and looked up
NestWritten ==
    /\ calls.mode = "pattern" /\ calls.phase = "looked"
    /\ NestOpened
    /\ Hist[Len(Hist) - 1].res = 0

\* the field of the outer map with the key name was written after the
\* nested map
AfterNest(name) ==
    \E i \in 1..Len(Hist) :
       /\ Hist[i].op = "add" /\ Hist[i].T = U8 /\ Hist[i].name = name
       /\ \E m \in 1..(i - 1) : Hist[m].op = "startMapNamed"

\* C12: getMap(outerKey).get(innerKey, d) returns the inner value, and a
\* field of the outer map written after the nested map is returned by get
\* on the outer instance, before and after the getMap call
C12_NestedMaps ==
    NestWritten
      => /\ (last.call.op = "getMapGet" /\ last.call.name[1] - 97 < InnerAdded)
               => last.ret = << << 1, last.call.name[1] - 97 >> >>
         /\ (last.call.op \in {"getInt", "getMapThenGet"} /\ AfterNest(last.call.name))
               => last.ret = << << last.call.name[1] - 97 >> >>

\* C16: the instance getMap returns for a nested map starts at the nested
\* map's header byte, and the offset of that header plus the instance's
\* declared length is at most the parent's declared length
C16_SubNavigatorScope ==
    (NestWritten /\ last.call.op = "getMap")
      => /\ last.ret[1].found
         /\ cbor.mBuf[last.ret[1].at + 1] \div 32 = kCborMap
         /\ last.ret[1].at + last.ret[1].length <= cbor.mMaxBufLen

\* C18: restart() sets the cursor, the bytes needed and the result to 0 and
\* empties the stack of map frames; it leaves the buffer, the capacity, the
\* read-only flag, the null-terminate flag and every buffer byte as they
\* were
C18_Restart ==
    [][ last'.call.op = "restart"
          => /\ bytesSerialized(cbor') = 0
             /\ bytesNeeded(cbor') = 0
             /\ getResult(cbor') = 0
             /\ cbor'.mDepth = -1
             /\ cbor'.mBuf = cbor.mBuf
             /\ cbor'.mMaxBufLen = cbor.mMaxBufLen
             /\ cbor'.mReadOnly = cbor.mReadOnly
             /\ cbor'.mNullTerminate = cbor.mNullTerminate ]_vars

\* restart() was called with a map open, bytes written and an error set
C18_Witness ==
    /\ last.call.op = "restart"
    /\ last.preResult # 0 /\ last.preOffset > 0 /\ last.preDepth >= 0
    /\ last.preNeeded > last.preOffset
    /\ bytesSerialized(cbor) = 0 /\ bytesNeeded(cbor) = 0 /\ getResult(cbor) = 0
    /\ cbor.mDepth = -1

\* the low n bytes of the big-endian number b, zero-extended
Low(b, n) == [i \in 1..n |-> IF Len(b) - n + i >= 1 THEN b[Len(b) - n + i] ELSE 0]

\* the number of bytes of b from its first non-zero byte on
Significant(b) == Cardinality({ i \in 1..Len(b) : \E k \in 1..i : b[k] # 0 })

\* the narrowest CBOR header that holds the number b under the major type
Narrowest(major, b) ==
    LET n == Significant(b)
    IN  IF n = 0 \/ (n = 1 /\ b[Len(b)] < 24) THEN << (major * 32) + Low(b, 1)[1] >>
        ELSE IF n = 1 THEN << (major * 32) + 24 >> \o Low(b, 1)
        ELSE IF n = 2 THEN << (major * 32) + 25 >> \o Low(b, 2)
        ELSE IF n <= 4 THEN << (major * 32) + 26 >> \o Low(b, 4)
        ELSE << (major * 32) + 27 >> \o Low(b, 8)

\* the integer item of the value v of type T in its narrowest form
NarrowestInt(T, v) ==
    IF IsNegative(T, v) THEN Narrowest(kCborNegInt, Complement(v))
    ELSE Narrowest(kCborPosInt, v)

\* the bytes the last call appended after the key of its field
ValueWritten ==
    SubSeq(cbor.mBuf, last.preOffset + 2 + Len(last.call.name) + 1 - 1, cbor.mDataOffset)

\* C19 (minimal integer path): addMinimal writes the value of every integer
\* type, the 64-bit ones included, with the narrowest header that holds it,
\* and get<T> of the name returns the value written.
C19_MinimalInteger ==
    /\ (/\ last.call.op = "addMinimal" /\ last.call.res = 0 /\ last.preResult = 0
        /\ cbor.mDepth = 0)
          => ValueWritten = NarrowestInt(last.call.T, last.call.v)
    /\ (/\ calls.mode = "pattern" /\ calls.phase = "looked" /\ Len(Hist) = 4
        /\ Hist[2].op = "addMinimal" /\ Hist[2].res = 0 /\ Hist[3].res = 0
        /\ last.call.op = "getInt" /\ last.call.T = Hist[2].T
        /\ last.call.name = Hist[2].name)
          => last.ret = << Hist[2].v >>

\* the caller wrote a map of PairsAdded pairs under a hint equal to that
\* count, so that endMap had no header to rewrite, without error
WroteHinted ==
    /\ calls.mode = "pattern" /\ calls.phase = "looked"
    /\ Hist[1].op = "startMap" /\ Hist[1].v = PairsAdded
    /\ \A i \in 1..Len(Hist) : Hist[i].res = 0

\* C20 (name lookup): in a map written by the writer, get(name) returns the
\* value of the pair whose key equals name, for keys of every length and
\* for maps of 24 or more pairs.
C20_NameLookup ==
    (/\ WroteHinted /\ last.call.op = "getInt"
     /\ last.call.name[1] - 97 < PairsAdded)
        => last.ret = << << last.call.name[1] - 97 >> >>

\* the caller wrote a map whose last field is an aligned array, without
\* error, and then looked up a name
WroteArray ==
    /\ calls.mode = "pattern" /\ calls.phase = "looked"
    /\ Len(Hist) >= 4
    /\ Hist[1].op = "startMap"
    /\ Hist[Len(Hist) - 2].op = "add" /\ Hist[Len(Hist) - 2].kind = "aligned"
    /\ \A i \in 1..Len(Hist) : Hist[i].res = 0

\* the array field written last
TheArray == Hist[Len(Hist) - 2]

\* C13 (typed array round-trip): after startMap(), add(name, values, n,
\* align = true) at any write offset, endMap(), restart(), getPointer<T>(name)
\* returns the length n and a pointer into the buffer at bytes equal to the
\* elements written.
C13_ArrayRoundTrip ==
    (/\ WroteArray /\ last.call.op = "getPointer"
     /\ last.call.T = TheArray.T /\ last.call.name = TheArray.name
     /\ \A i \in 2..(Len(Hist) - 3) : Hist[i].name # TheArray.name)
        => /\ last.ret[1].length = TheArray.v
           /\ ~last.ret[1].p.def
           /\ SubSeq(cbor.mBuf, last.ret[1].p.at + 1,
                     last.ret[1].p.at + (TheArray.v * TheArray.T.size))
                = ArrayBytes(TheArray.T, TheArray.v)

\* C14 (array alignment): an array of elements of size S added with a name
\* and align = true has its first payload byte at an offset that is a
\* multiple of S.
C14_ArrayAlignment ==
    (/\ last.call.op = "add" /\ last.call.kind = "aligned"
     /\ last.call.res = 0 /\ last.preResult = 0 /\ cbor.mDepth = 0)
        => (cbor.mDataOffset - (last.call.v * last.call.T.size)) % last.call.T.size = 0

\* the caller wrote a map of string fields only, without error, and looked
\* up a name written once
WroteStrings ==
    /\ calls.mode = "pattern" /\ calls.phase = "looked"
    /\ Len(Hist) >= 4
    /\ Hist[1].op = "startMap"
    /\ \A i \in 2..(Len(Hist) - 2) : Hist[i].op = "add" /\ Hist[i].kind = "string"
    /\ \A i \in 1..Len(Hist) : Hist[i].res = 0
    /\ Cardinality({ i \in 2..(Len(Hist) - 2) : Hist[i].name = last.call.name }) = 1

\* the string written under the name looked up
TheString == Hist[CHOOSE i \in 2..(Len(Hist) - 2) : Hist[i].name = last.call.name].v

\* C15 (string length): getLength(name) is strlen(s) of the string added
\* under the name, whether or not the instance null-terminates strings, the
\* empty string included; with null-termination the byte strlen(s) after the
\* pointer get<const char *> returns is 0.
C15_StringLength ==
    WroteStrings
      => /\ last.call.op = "getLength" => last.ret = << Len(TheString) >>
         /\ (last.call.op = "getString" /\ cbor.mNullTerminate)
              => /\ ~last.ret[1].def
                 /\ cbor.mBuf[last.ret[1].at + Len(TheString) + 1] = 0

\* a null-terminating instance reported the length 23 of a string stored in
\* 24 bytes under a 2-byte header
C15_Witness ==
    /\ WroteStrings /\ last.call.op = "getLength" /\ cbor.mNullTerminate
    /\ Len(TheString) = 23 /\ last.ret = << 23 >>

\* the buffer is the map { "a": item } and the lookup was of "a"
LookedUpFieldA ==
    /\ calls.mode = "decode" /\ calls.phase = "looked"
    /\ cbor.mMaxBufLen >= 4 /\ SubSeq(cbor.mBuf, 1, 3) = <<161, 97, 97>>
    /\ last.call.name = KeyA

\* the major type of the item, and for a tagged item its tag and the major
\* type of what is tagged
ItemMajor == cbor.mBuf[4] \div 32
ItemTag == cbor.mBuf[5]
TaggedMajor == cbor.mBuf[6] \div 32

\* the item's type does not match the accessor called
Mismatch ==
    CASE last.call.op = "getInt" ->
           ItemMajor \notin {kCborPosInt, kCborNegInt, kCborTag}
      [] last.call.op \in {"getBool", "getFloat"} ->
           ItemMajor \notin {kCborSimple, kCborTag}
      [] last.call.op = "getString" -> ItemMajor \notin {kCborUTF8String, kCborTag}
      [] last.call.op = "getPointer" ->
           \/ ItemMajor # kCborTag
           \/ ItemTag # kCborTagInfo(last.call.T)
           \/ TaggedMajor # kCborByteString
      [] OTHER -> FALSE

\* C17 (type mismatch is local): an accessor whose type the named field
\* does not match returns the caller's default (for getPointer: when the
\* tag differs or the item is no byte string), and no lookup changes
\* getResult().
C17_TypeMismatchLocal ==
    /\ last.call.op \in LookupOps => getResult(cbor) = last.preResult
    /\ (LookedUpFieldA /\ Mismatch) => ReturnsDefault

\* a map is open at a depth the frame array holds, on a mutable buffer
\* without error
OpenMap(o) ==
    /\ getResult(o) = 0 /\ ~o.mReadOnly
    /\ o.mDepth >= 0 /\ o.mDepth + 1 < CONFIG_MICROCBOR_MAX_NESTING

\* C21 (all-or-nothing append): an add or startMap(name) that does not fit
\* in the remaining capacity writes no byte of its field: bytesSerialized(),
\* the buffer bytes and the pair count of the open map are as before.
C21_AllOrNothing ==
    [][ (/\ last'.call.op \in {"add", "addMinimal", "startMapNamed"}
         /\ OpenMap(cbor) /\ getResult(cbor') # 0)
          => /\ bytesSerialized(cbor') = bytesSerialized(cbor)
             /\ cbor'.mBuf = cbor.mBuf
             /\ cbor'.mMapState = cbor.mMapState ]_vars

\* the header encodeHeader was asked for
AskedMajor == Hist[1].v[1]
AskedLen == Hist[1].v[2]

\* the number of bytes the claim gives the header of a length
HeaderWidth(n) ==
    IF U32Lt(n, 24) THEN 1 ELSE IF U32Lt(n, 256) THEN 2
    ELSE IF U32Lt(n, 65536) THEN 3 ELSE 5

\* the header of the major type and length: the trailing bytes big-endian
HeaderOf(m, n) ==
    IF HeaderWidth(n) = 1 THEN << (m * 32) + n >>
    ELSE IF HeaderWidth(n) = 2 THEN << (m * 32) + 24 >> \o Low(U32Bytes(n), 1)
    ELSE IF HeaderWidth(n) = 3 THEN << (m * 32) + 25 >> \o Low(U32Bytes(n), 2)
    ELSE << (m * 32) + 26 >> \o U32Bytes(n)

\* encodeHeader emitted the header of the claim
EmittedHeader ==
    (Len(Hist) >= 1 /\ Hist[1].op = "encodeHeader" /\ last.call.op = "encodeHeader")
      => /\ bytesSerialized(cbor) = HeaderWidth(AskedLen)
         /\ SubSeq(cbor.mBuf, 1, HeaderWidth(AskedLen)) = HeaderOf(AskedMajor, AskedLen)

\* getNextField was called on the header written
ReadHeader ==
    /\ calls.phase = "looked" /\ last.call.op = "getNextField"
    /\ Len(Hist) = 2 /\ Hist[1].op = "encodeHeader"

\* getNextField and getFieldValue returned the header written
ReturnedHeader ==
    /\ last.ret[1].majorval = AskedMajor
    /\ last.ret[1].headerBytes = HeaderWidth(AskedLen)
    /\ last.ret[1].value = AskedLen

\* C22 as stated: for every major type 0..7 and every length, encodeHeader
\* emits 1, 2, 3 or 5 bytes by the thresholds 24, 256, 65536, big-endian, and
\* getNextField/getFieldValue return the major type, the width and the length.
C22_HeaderRoundTripStated ==
    /\ EmittedHeader
    /\ ReadHeader => ReturnedHeader

\* C22 (header codec round-trip), amended: as stated for every major type
\* other than 6; for the tag header (major type 6) getNextField returns the
\* item that follows the header, or the error descriptor when the buffer
\* ends there, with its tag set to the low 16 bits of the length.
C22_HeaderRoundTrip ==
    /\ EmittedHeader
    /\ (ReadHeader /\ AskedMajor # kCborTag) => ReturnedHeader
    /\ (ReadHeader /\ AskedMajor = kCborTag)
         => /\ last.ret[1].tag = (Low(U32Bytes(AskedLen), 2)[1] * 256)
                                   + Low(U32Bytes(AskedLen), 2)[2]
            /\ last.ret[1].majorval =
                 IF HeaderWidth(AskedLen) < cbor.mMaxBufLen
                 THEN cbor.mBuf[HeaderWidth(AskedLen) + 1] \div 32
                 ELSE kCborError

\* a 5-byte header of a major type other than tag was read back, and a tag
\* header was read through to the item after it
C22_Witness ==
    /\ ReadHeader /\ AskedLen = -2
    /\ \/ (AskedMajor = kCborSimple /\ ReturnedHeader)
       \/ (AskedMajor = kCborTag /\ last.ret[1].tag = 65534
             /\ last.ret[1].majorval = kCborPosInt)

\* the last call was an add<T> of an integer that succeeded in an open map
AddedInt ==
    /\ last.call.op = "add" /\ last.call.kind = "int"
    /\ last.call.res = 0 /\ last.preResult = 0 /\ cbor.mDepth = 0

\* the additional-information value of a payload of n bytes
WidthCode(n) == IF n = 1 THEN 24 ELSE IF n = 2 THEN 25 ELSE IF n = 4 THEN 26 ELSE 27

\* C23 (fixed integer wire size): add<T>(key, v) encodes the value in
\* 1 + sizeof(T) bytes whatever its magnitude, as PositiveInt with payload v
\* when v >= 0 and as NegativeInt with payload -1 - v when v < 0; a map of
\* one 1-byte key and one 32-bit integer takes 8 bytes.
C23_FixedIntegerSize ==
    /\ AddedInt
         => /\ Len(ValueWritten) = 1 + last.call.T.size
            /\ ValueWritten =
                 IF IsNegative(last.call.T, last.call.v)
                 THEN << (kCborNegInt * 32) + WidthCode(last.call.T.size) >>
                        \o Complement(last.call.v)
                 ELSE << (kCborPosInt * 32) + WidthCode(last.call.T.size) >>
                        \o last.call.v
    /\ (/\ last.call.op = "endMap" /\ last.call.res = 0 /\ Len(Hist) = 3
        /\ Hist[2].op = "add" /\ Hist[2].kind = "int"
        /\ Hist[2].T.size = 4 /\ Len(Hist[2].name) = 1)
         => bytesSerialized(cbor) = 8

\* a negative 32-bit value was written as NegativeInt under a 4-byte header
C23_Witness ==
    /\ AddedInt /\ last.call.T = I32 /\ last.call.v = << 255, 255, 255, 255 >>
    /\ ValueWritten = << 58, 0, 0, 0, 0 >>

\* C24 (written versus needed): after any sequence of encode calls from a
\* fresh or restarted mutable instance, bytesSerialized() is at most
\* bytesNeeded(), and the two are equal whenever getResult() is 0.
C24_WrittenVersusNeeded ==
    (~cbor.mReadOnly /\ calls.mode = "free")
      => /\ ~U32Lt(bytesNeeded(cbor), bytesSerialized(cbor))
         /\ getResult(cbor) = 0 => bytesSerialized(cbor) = bytesNeeded(cbor)

\* C26 (frame index validity): after any sequence of startMap, endMap, add,
\* addMinimal and restart calls, every read and write of mMapState used an
\* index in 0..CONFIG_MICROCBOR_MAX_NESTING-1, and mDepth is in
\* -1..CONFIG_MICROCBOR_MAX_NESTING-1.
C26_FrameIndexValidity ==
    calls.mode = "free"
      => /\ ~cbor.xFrameOOB
         /\ cbor.mDepth >= -1
         /\ cbor.mDepth <= CONFIG_MICROCBOR_MAX_NESTING - 1

\* the value of the signed big-endian number v in n bytes, n >= Len(v)
SignExtend(v, n) ==
    [i \in 1..n |-> IF i + (Len(v) - n) >= 1 THEN v[i + (Len(v) - n)]
                    ELSE IF v[1] >= 128 THEN 255 ELSE 0]

\* C27 (widening read of integers): an integer written with add<T> for a
\* signed T of 8, 16 or 32 bits and read with get<U> for a wider signed U
\* is returned as written, also when it is negative.
C27_WideningRead ==
    (/\ WroteOne("int") /\ last.call.op = "getInt"
     /\ last.call.name = Hist[2].name
     /\ Hist[2].T.signed /\ last.call.T.signed
     /\ last.call.T.size > Hist[2].T.size)
        => last.ret = << SignExtend(Hist[2].v, last.call.T.size) >>

\* C25 (bounded scan): for every buffer content of length L, the number of
\* key/value pairs a lookup visits is at most L, whatever pair count the
\* map header declares.
C25_BoundedScan ==
    [][ (last'.call.op \in LookupOps /\ calls.mode = "decode")
          => \A j \in Junk :
                U32Le(pairsVisited(cbor, last'.call.name, j), cbor.mMaxBufLen) ]_vars

\* C28 (read-only is inherited): the instance getMap returns on a parent
\* bound to a read-only buffer is read-only: startMap and add on it set a
\* non-zero result and change no byte of the parent's buffer.
C28_ReadOnlyInherited ==
    (/\ last.call.op = "getMapWrite" /\ cbor.mReadOnly /\ last.ret[1].found)
        => /\ last.ret[1].started # 0
           /\ last.ret[1].added # 0
           /\ last.changed = {}

=============================================================================
